---------------------------- MODULE Spec2Model ----------------------------
(***************************************************************************)
(* Model of json_convert.py: json_to_text, extract_full_transcript,        *)
(* load_from_localhost, save_transcript_to_file and the __main__ driver.   *)
(*                                                                         *)
(* Text is a sequence of one-character strings, so that parsing and        *)
(* serialising are computed character by character.  json.loads follows    *)
(* CPython's scanner (objects, arrays, strings with escapes, integers,     *)
(* the three literals, whitespace) and reports the same error messages     *)
(* and positions; json.dumps follows the indent=4, ensure_ascii=False      *)
(* encoder.  Outside the alphabet of the model: floats, NaN/Infinity,      *)
(* \uXXXX escapes and control characters other than LF, TAB and CR.        *)
(***************************************************************************)
EXTENDS Integers, Sequences, FiniteSets, TLC

VARIABLES
    json_data,        \* the text handed to the JSON operations
    source,           \* how json_data was made: the value it serialises, if any
    result,           \* extract_full_transcript's outcome
    formatted,        \* json_to_text's outcome
    reformatted,      \* json_to_text's outcome on its own output
    dirs,             \* filesystem: the directories that exist
    files,            \* filesystem: file -> content
    stdout,           \* the lines printed so far
    saved,            \* the last save_transcript_to_file call and its outcome
    requests,         \* the requests.get calls made so far
    fetched,          \* the last load_from_localhost call and its outcome
    calls,            \* number of calls made so far
    pc,               \* the driver's position
    full_transcript,  \* the driver's local of that name
    env               \* what the network and the filesystem do to the driver

vars == <<json_data, source, result, formatted, reformatted, dirs, files, stdout,
          saved, requests, fetched, calls, pc, full_transcript, env>>

---------------------------------------------------------------------------
(* String constants of the program and of the libraries it calls.          *)

KeySegments ==
    <<"s", "e", "g", "m", "e", "n", "t", "s">>
KeyTranscript ==
    <<"t", "r", "a", "n", "s", "c", "r", "i", "p", "t">>
InvalidJsonPrefix ==
    <<"I", "n", "v", "a", "l", "i", "d", " ", "J", "S", "O", "N", " ",
      "d", "a", "t", "a", ":", " ">>
ExtractErrorPrefix ==
    <<"E", "r", "r", "o", "r", " ", "e", "x", "t", "r", "a", "c", "t", "i", "n", "g",
      " ", "t", "r", "a", "n", "s", "c", "r", "i", "p", "t", ":", " ">>
FetchErrorPrefix ==
    <<"E", "r", "r", "o", "r", " ", "f", "e", "t", "c", "h", "i", "n", "g", " ",
      "d", "a", "t", "a", ":", " ">>
SaveErrorPrefix ==
    <<"E", "r", "r", "o", "r", " ", "s", "a", "v", "i", "n", "g", " ",
      "t", "r", "a", "n", "s", "c", "r", "i", "p", "t", ":", " ">>
SavedPrefix ==
    <<"T", "r", "a", "n", "s", "c", "r", "i", "p", "t", " ", "s", "a", "v", "e", "d",
      " ", "t", "o", " ">>
BearerPrefix ==
    <<"B", "e", "a", "r", "e", "r", " ">>
MsgExpectingValue ==
    <<"E", "x", "p", "e", "c", "t", "i", "n", "g", " ", "v", "a", "l", "u", "e">>
MsgExtraData ==
    <<"E", "x", "t", "r", "a", " ", "d", "a", "t", "a">>
MsgPropertyName ==
    <<"E", "x", "p", "e", "c", "t", "i", "n", "g", " ", "p", "r", "o", "p", "e", "r",
      "t", "y", " ", "n", "a", "m", "e", " ", "e", "n", "c", "l", "o", "s", "e", "d",
      " ", "i", "n", " ", "d", "o", "u", "b", "l", "e", " ", "q", "u", "o", "t", "e", "s">>
MsgColon ==
    <<"E", "x", "p", "e", "c", "t", "i", "n", "g", " ", "'", ":", "'", " ",
      "d", "e", "l", "i", "m", "i", "t", "e", "r">>
MsgComma ==
    <<"E", "x", "p", "e", "c", "t", "i", "n", "g", " ", "'", ",", "'", " ",
      "d", "e", "l", "i", "m", "i", "t", "e", "r">>
MsgUnterminated ==
    <<"U", "n", "t", "e", "r", "m", "i", "n", "a", "t", "e", "d", " ", "s", "t", "r",
      "i", "n", "g", " ", "s", "t", "a", "r", "t", "i", "n", "g", " ", "a", "t">>
MsgControl ==
    <<"I", "n", "v", "a", "l", "i", "d", " ", "c", "o", "n", "t", "r", "o", "l", " ",
      "c", "h", "a", "r", "a", "c", "t", "e", "r", " ", "a", "t">>
MsgEscape ==
    <<"I", "n", "v", "a", "l", "i", "d", " ", "\\", "e", "s", "c", "a", "p", "e">>
LitNull ==
    <<"n", "u", "l", "l">>
LitTrue ==
    <<"t", "r", "u", "e">>
LitFalse ==
    <<"f", "a", "l", "s", "e">>
TxtLine ==
    <<":", " ", "l", "i", "n", "e", " ">>
TxtColumn ==
    <<" ", "c", "o", "l", "u", "m", "n", " ">>
TxtChar ==
    <<" ", "(", "c", "h", "a", "r", " ">>

---------------------------------------------------------------------------
(* Text helpers.                                                           *)

RECURSIVE Concat(_)
\* ''.join(parts)
Concat(parts) ==
    IF parts = <<>> THEN <<>> ELSE Head(parts) \o Concat(Tail(parts))

RECURSIVE Repeat(_, _)
\* s * n
Repeat(s, n) ==
    IF n <= 0 THEN <<>> ELSE s \o Repeat(s, n - 1)

\* s.startswith(p)
StartsWith(s, p) ==
    /\ Len(s) >= Len(p)
    /\ SubSeq(s, 1, Len(p)) = p

\* s[i-1:i-1+n] of Python, with the 1-based index i: cut at the end of s
Slice(s, i, n) ==
    IF i > Len(s) THEN <<>>
    ELSE SubSeq(s, i, IF i + n - 1 > Len(s) THEN Len(s) ELSE i + n - 1)

\* s[i-1:i] of Python, with the 1-based index i: the empty string past the end
At(s, i) ==
    IF i >= 1 /\ i <= Len(s) THEN s[i] ELSE ""

DigitChars ==
    <<"0", "1", "2", "3", "4", "5", "6", "7", "8", "9">>

IsDigit(c) ==
    \E d \in 1..10 : DigitChars[d] = c

DigitValue(c) ==
    (CHOOSE d \in 1..10 : DigitChars[d] = c) - 1

RECURSIVE NatRepr(_)
\* int.__repr__ of a non-negative int
NatRepr(n) ==
    IF n < 10 THEN <<DigitChars[n + 1]>>
    ELSE NatRepr(n \div 10) \o <<DigitChars[(n % 10) + 1]>>

\* int.__repr__
IntRepr(n) ==
    IF n < 0 THEN <<"-">> \o NatRepr(0 - n) ELSE NatRepr(n)

---------------------------------------------------------------------------
(* JSON values as json.loads builds them.                                  *)

JNull == [t |-> "null", v |-> 0]
JBool(b) == [t |-> "bool", v |-> b]
JNum(n) == [t |-> "num", v |-> n]
JStr(cs) == [t |-> "str", v |-> cs]
JArr(items) == [t |-> "arr", v |-> items]
\* a dict: its (key, value) pairs in insertion order, keys distinct
JObj(pairs) == [t |-> "obj", v |-> pairs]

HasKey(pairs, k) ==
    \E i \in 1..Len(pairs) : pairs[i].k = k

\* d[k] of a dict that has the key
Lookup(pairs, k) ==
    pairs[CHOOSE i \in 1..Len(pairs) : pairs[i].k = k].v

\* d[k] = v: a new key goes last, an old key keeps its place
DictSet(pairs, k, v) ==
    IF HasKey(pairs, k)
    THEN [i \in 1..Len(pairs) |->
            IF pairs[i].k = k THEN [k |-> k, v |-> v] ELSE pairs[i]]
    ELSE Append(pairs, [k |-> k, v |-> v])

---------------------------------------------------------------------------
(* json.loads: the scanner.  A result is a value and the index after it,   *)
(* or a JSONDecodeError's message and (0-based) position.                  *)

Ok(v, next) == [ok |-> TRUE, v |-> v, i |-> next, msg |-> <<>>]
Err(msg, pos) == [ok |-> FALSE, v |-> JNull, i |-> pos, msg |-> msg]

WHITESPACE_STR == {" ", "\t", "\n", "\r"}

\* the characters below 0x20 that the alphabet holds
ControlChars == {"\t", "\n", "\r"}

\* decoder.BACKSLASH restricted to the alphabet
BackslashKeys == {"\"", "\\", "/", "n", "t", "r"}
BACKSLASH(c) ==
    CASE c = "n" -> "\n"
      [] c = "t" -> "\t"
      [] c = "r" -> "\r"
      [] OTHER -> c

RECURSIVE SkipWs(_, _)
\* WHITESPACE.match(s, i).end()
SkipWs(s, i) ==
    IF i <= Len(s) /\ s[i] \in WHITESPACE_STR THEN SkipWs(s, i + 1) ELSE i

RECURSIVE scanstring(_, _, _, _)
\* scanstring(s, end, strict=True); i is the index after the opening quote,
\* begin the 0-based position of that quote, acc the characters decoded so far
scanstring(s, i, begin, acc) ==
    IF i > Len(s) THEN Err(MsgUnterminated, begin)
    ELSE IF s[i] = "\"" THEN Ok(acc, i + 1)
    ELSE IF s[i] = "\\" THEN
        IF i + 1 > Len(s) THEN Err(MsgUnterminated, begin)
        ELSE IF s[i + 1] \in BackslashKeys
             THEN scanstring(s, i + 2, begin, Append(acc, BACKSLASH(s[i + 1])))
             ELSE Err(MsgEscape, i - 1)
    ELSE IF s[i] \in ControlChars THEN Err(MsgControl, i - 1)
    ELSE scanstring(s, i + 1, begin, Append(acc, s[i]))

RECURSIVE ScanDigits(_, _, _)
\* the digits of NUMBER_RE's integer part from index i on: value and end
ScanDigits(s, i, acc) ==
    IF i <= Len(s) /\ IsDigit(s[i])
    THEN ScanDigits(s, i + 1, acc * 10 + DigitValue(s[i]))
    ELSE [n |-> acc, i |-> i]

\* NUMBER_RE.match(s, i): -?(0|[1-9]\d*)
match_number(s, i) ==
    LET neg == At(s, i) = "-"
        j == IF neg THEN i + 1 ELSE i
    IN  IF ~IsDigit(At(s, j)) THEN Err(MsgExpectingValue, i - 1)
        ELSE IF s[j] = "0" THEN Ok(JNum(0), j + 1)
        ELSE LET d == ScanDigits(s, j, 0)
             IN  Ok(JNum(IF neg THEN 0 - d.n ELSE d.n), d.i)

RECURSIVE scan_once(_, _)
RECURSIVE JSONObjectLoop(_, _, _)
RECURSIVE JSONArrayLoop(_, _, _)

\* JSONObject: i is the index after the opening brace
JSONObject(s, i) ==
    LET j == IF At(s, i) \in WHITESPACE_STR THEN SkipWs(s, i) ELSE i
    IN  IF At(s, i) # "\"" /\ At(s, j) = "}" THEN Ok(JObj(<<>>), j + 1)
        ELSE IF At(s, j) # "\"" THEN Err(MsgPropertyName, j - 1)
        ELSE JSONObjectLoop(s, j + 1, <<>>)

\* the while-loop of JSONObject: i is the index after a key's opening quote
JSONObjectLoop(s, i, pairs) ==
    LET key == scanstring(s, i, i - 2, <<>>)
    IN  IF ~key.ok THEN key
        ELSE LET c == SkipWs(s, key.i)
             IN  IF At(s, c) # ":" THEN Err(MsgColon, c - 1)
                 ELSE LET value == scan_once(s, SkipWs(s, c + 1))
                      IN  IF ~value.ok THEN value
                          ELSE LET e == SkipWs(s, value.i)
                                   done == DictSet(pairs, key.v, value.v)
                                   q == SkipWs(s, e + 1)
                               IN  IF At(s, e) = "}" THEN Ok(JObj(done), e + 1)
                                   ELSE IF At(s, e) # "," THEN Err(MsgComma, e - 1)
                                   ELSE IF At(s, q) # "\"" THEN Err(MsgPropertyName, q - 1)
                                   ELSE JSONObjectLoop(s, q + 1, done)

\* JSONArray: i is the index after the opening bracket
JSONArray(s, i) ==
    LET j == SkipWs(s, i)
    IN  IF At(s, j) = "]" THEN Ok(JArr(<<>>), j + 1)
        ELSE JSONArrayLoop(s, j, <<>>)

\* the while-loop of JSONArray: i is the index of the next element
JSONArrayLoop(s, i, items) ==
    LET value == scan_once(s, i)
    IN  IF ~value.ok THEN value
        ELSE LET e == SkipWs(s, value.i)
                 done == Append(items, value.v)
             IN  IF At(s, e) = "]" THEN Ok(JArr(done), e + 1)
                 ELSE IF At(s, e) # "," THEN Err(MsgComma, e - 1)
                 ELSE JSONArrayLoop(s, SkipWs(s, e + 1), done)

\* scanner.scan_once; StopIteration(idx) is what every caller turns into
\* JSONDecodeError("Expecting value", s, idx)
scan_once(s, i) ==
    LET c == At(s, i)
    IN  IF c = "\"" THEN
            LET str == scanstring(s, i + 1, i - 1, <<>>)
            IN  IF str.ok THEN Ok(JStr(str.v), str.i) ELSE str
        ELSE IF c = "{" THEN JSONObject(s, i + 1)
        ELSE IF c = "[" THEN JSONArray(s, i + 1)
        ELSE IF c = "n" /\ Slice(s, i, 4) = LitNull THEN Ok(JNull, i + 4)
        ELSE IF c = "t" /\ Slice(s, i, 4) = LitTrue THEN Ok(JBool(TRUE), i + 4)
        ELSE IF c = "f" /\ Slice(s, i, 5) = LitFalse THEN Ok(JBool(FALSE), i + 5)
        ELSE match_number(s, i)

\* JSONDecoder.decode: one value, whitespace around it, nothing after it
json_loads(s) ==
    LET obj == scan_once(s, SkipWs(s, 1))
        end == SkipWs(s, obj.i)
    IN  IF ~obj.ok THEN obj
        ELSE IF end # Len(s) + 1 THEN Err(MsgExtraData, end - 1)
        ELSE obj

\* str(JSONDecodeError(msg, doc, pos)): '%s: line %d column %d (char %d)'
DecodeErrorStr(s, e) ==
    LET nl == {k \in 1..e.i : k <= Len(s) /\ s[k] = "\n"}
        lineno == Cardinality(nl) + 1
        last == IF nl = {} THEN 0 ELSE CHOOSE k \in nl : \A m \in nl : m <= k
        colno == e.i - last + 1
    IN  e.msg \o TxtLine \o NatRepr(lineno) \o TxtColumn \o NatRepr(colno)
            \o TxtChar \o NatRepr(e.i) \o <<")">>

---------------------------------------------------------------------------
(* json.dumps(obj, indent=4, ensure_ascii=False): the pure-Python encoder  *)
(* that an indent selects.                                                 *)

\* mutant of EscapeChar: the backslash itself is written unescaped
EscapeCharNoBackslash(c) ==
    CASE c = "\"" -> <<"\\", "\"">>
      [] c = "\n" -> <<"\\", "n">>
      [] c = "\t" -> <<"\\", "t">>
      [] c = "\r" -> <<"\\", "r">>
      [] OTHER -> <<c>>

\* encoder.ESCAPE_DCT restricted to the alphabet
EscapeChar(c) ==
    CASE c = "\"" -> <<"\\", "\"">>
      [] c = "\\" -> <<"\\", "\\">>
      [] c = "\n" -> <<"\\", "n">>
      [] c = "\t" -> <<"\\", "t">>
      [] c = "\r" -> <<"\\", "r">>
      [] OTHER -> <<c>>

\* encoder.encode_basestring
encode_basestring(cs) ==
    <<"\"">> \o Concat([i \in 1..Len(cs) |-> EscapeChar(cs[i])]) \o <<"\"">>

\* '\n' + indent * level
newline_indent(indent, level) ==
    <<"\n">> \o Repeat(<<" ">>, indent * level)

RECURSIVE JoinWith(_, _)
\* sep.join(parts)
JoinWith(sep, parts) ==
    IF parts = <<>> THEN <<>>
    ELSE IF Len(parts) = 1 THEN parts[1]
    ELSE parts[1] \o sep \o JoinWith(sep, Tail(parts))

RECURSIVE iterencode(_, _, _)
\* _make_iterencode's _iterencode / _iterencode_list / _iterencode_dict
iterencode(o, indent, level) ==
    CASE o.t = "str" -> encode_basestring(o.v)
      [] o.t = "null" -> LitNull
      [] o.t = "bool" -> IF o.v THEN LitTrue ELSE LitFalse
      [] o.t = "num" -> IntRepr(o.v)
      [] o.t = "arr" ->
            IF o.v = <<>> THEN <<"[", "]">>
            ELSE <<"[">> \o newline_indent(indent, level + 1)
                 \o JoinWith(<<",">> \o newline_indent(indent, level + 1),
                       [i \in 1..Len(o.v) |-> iterencode(o.v[i], indent, level + 1)])
                 \o newline_indent(indent, level) \o <<"]">>
      [] o.t = "obj" ->
            IF o.v = <<>> THEN <<"{", "}">>
            ELSE <<"{">> \o newline_indent(indent, level + 1)
                 \o JoinWith(<<",">> \o newline_indent(indent, level + 1),
                       [i \in 1..Len(o.v) |->
                           encode_basestring(o.v[i].k) \o <<":", " ">>
                               \o iterencode(o.v[i].v, indent, level + 1)])
                 \o newline_indent(indent, level) \o <<"}">>

IndentWidth == 4

json_dumps(o) ==
    iterencode(o, IndentWidth, 0)

---------------------------------------------------------------------------
(* Outcomes of a call: a returned string, or an exception that leaves the  *)
(* function.                                                               *)

NoResult == [kind |-> "none", s |-> <<>>, exc |-> "none"]
Return(cs) == [kind |-> "return", s |-> cs, exc |-> "none"]
Raise(exc) == [kind |-> "raise", s |-> <<>>, exc |-> exc]

\* mutant of json_to_text: no except clause, the JSONDecodeError leaves it
json_to_text_uncaught(text) ==
    LET parsed_data == json_loads(text)
    IN  IF parsed_data.ok
        THEN Return(json_dumps(parsed_data.v))
        ELSE Raise("JSONDecodeError")

\* json_to_text(json_data, ensure_ascii=False)
json_to_text(text) ==
    LET parsed_data == json_loads(text)
    IN  IF parsed_data.ok
        THEN Return(json_dumps(parsed_data.v))
        ELSE Return(InvalidJsonPrefix \o DecodeErrorStr(text, parsed_data))

\* o[key] for a str key: the value, KeyError from a dict without the key,
\* TypeError from everything that is not a dict
Subscript(o, key) ==
    IF o.t # "obj" THEN [exc |-> "TypeError", v |-> JNull]
    ELSE IF ~HasKey(o.v, key) THEN [exc |-> "KeyError", v |-> JStr(key)]
    ELSE [exc |-> "none", v |-> Lookup(o.v, key)]

\* iter(o): the elements of a list, the keys of a dict, the characters of a
\* str; TypeError from None, bool and int
Iterate(o) ==
    CASE o.t = "arr" -> [exc |-> "none", v |-> o.v]
      [] o.t = "obj" -> [exc |-> "none", v |-> [i \in 1..Len(o.v) |-> JStr(o.v[i].k)]]
      [] o.t = "str" -> [exc |-> "none", v |-> [i \in 1..Len(o.v) |-> JStr(<<o.v[i]>>)]]
      [] OTHER -> [exc |-> "TypeError", v |-> <<>>]

RECURSIVE Generate(_, _)
\* the generator (segment["transcript"] for segment in segments), run to its
\* end or to its first exception, as str.join runs it before it joins
Generate(segments, acc) ==
    IF segments = <<>> THEN [exc |-> "none", v |-> acc]
    ELSE LET item == Subscript(Head(segments), KeyTranscript)
         IN  IF item.exc # "none" THEN [exc |-> item.exc, v |-> <<item.v>>]
             ELSE Generate(Tail(segments), Append(acc, item.v))

\* mutant of StrJoin: the separator is put after every item, the last too
StrJoinTrailing(sep, items) ==
    IF \E i \in 1..Len(items) : items[i].t # "str"
    THEN [exc |-> "TypeError", v |-> <<>>]
    ELSE [exc |-> "none", v |-> Concat([i \in 1..Len(items) |-> items[i].v \o sep])]

\* " ".join(items): TypeError unless every item is a str
StrJoin(sep, items) ==
    IF \E i \in 1..Len(items) : items[i].t # "str"
    THEN [exc |-> "TypeError", v |-> <<>>]
    ELSE [exc |-> "none", v |-> JoinWith(sep, [i \in 1..Len(items) |-> items[i].v])]

\* str(KeyError(key)): repr of the key
KeyErrorStr(key) ==
    <<"'">> \o key \o <<"'">>

\* mutant of ExtractExcept: the clause names json.JSONDecodeError alone
ExtractExceptDecodeOnly(exc, key) ==
    Raise(exc)

\* what the except clause of extract_full_transcript does with an exception
\* of the try body: KeyError is caught, every other one propagates
ExtractExcept(exc, key) ==
    IF exc = "KeyError"
    THEN Return(ExtractErrorPrefix \o KeyErrorStr(key))
    ELSE Raise(exc)

\* extract_full_transcript(json_data)
extract_full_transcript(text) ==
    LET data == json_loads(text)
        segments == Subscript(data.v, KeySegments)
        iterable == Iterate(segments.v)
        items == Generate(iterable.v, <<>>)
        joined == StrJoin(<<" ">>, items.v)
    IN  IF ~data.ok
        THEN Return(ExtractErrorPrefix \o DecodeErrorStr(text, data))
        ELSE IF segments.exc # "none" THEN ExtractExcept(segments.exc, segments.v.v)
        ELSE IF iterable.exc # "none" THEN ExtractExcept(iterable.exc, <<>>)
        ELSE IF items.exc # "none" THEN ExtractExcept(items.exc, items.v[1].v)
        ELSE IF joined.exc # "none" THEN ExtractExcept(joined.exc, <<>>)
        ELSE Return(joined.v)

---------------------------------------------------------------------------
(* The texts the JSON operations are applied to.                           *)

MaxSegs == 3
MaxDepth == 2

RECURSIVE serialize(_)
\* json.dumps(v): the compact form a caller serialises a document with
serialize(o) ==
    CASE o.t = "str" -> encode_basestring(o.v)
      [] o.t = "null" -> LitNull
      [] o.t = "bool" -> IF o.v THEN LitTrue ELSE LitFalse
      [] o.t = "num" -> IntRepr(o.v)
      [] o.t = "arr" ->
            <<"[">> \o JoinWith(<<",", " ">>, [i \in 1..Len(o.v) |-> serialize(o.v[i])])
                \o <<"]">>
      [] o.t = "obj" ->
            <<"{">> \o JoinWith(<<",", " ">>,
                        [i \in 1..Len(o.v) |->
                            encode_basestring(o.v[i].k) \o <<":", " ">>
                                \o serialize(o.v[i].v)])
                \o <<"}">>

Field(k, v) == [k |-> k, v |-> v]

\* segments with a string transcript; other fields before or after it
GoodSegments ==
    {JObj(<<Field(KeyTranscript, JStr(<<"h", "i">>))>>),
     JObj(<<Field(KeyTranscript, JStr(<<>>)), Field(<<"i", "d">>, JNum(7))>>),
     JObj(<<Field(<<"i", "d">>, JNull),
            Field(KeyTranscript, JStr(<<"a", " ", "\"", "b">>))>>)}

\* objects without a transcript field
LackingSegments ==
    {JObj(<<Field(<<"i", "d">>, JNum(7))>>)}

\* a transcript that is no string, and elements that are no objects
MisshapenSegments ==
    {JObj(<<Field(KeyTranscript, JNum(5))>>), JNum(5)}

SegmentCandidates ==
    GoodSegments \cup LackingSegments \cup MisshapenSegments

SegmentLists ==
    UNION {[1..n -> SegmentCandidates] : n \in 0..MaxSegs}

\* {"segments": [...]}
TranscriptDoc(list) ==
    JObj(<<Field(KeySegments, JArr(list))>>)

TranscriptDocs ==
    {TranscriptDoc(l) : l \in SegmentLists}
    \cup {JObj(<<Field(<<"i", "d">>, JNum(1)), Field(KeySegments, JArr(<<g>>)),
                 Field(<<"n">>, JNull)>>) : g \in GoodSegments}

\* valid JSON of another shape
ShapeDocs ==
    {JObj(<<>>), JObj(<<Field(<<"n", "o", "_">> \o KeySegments, JArr(<<>>))>>),
     JArr(<<>>), JArr(<<TranscriptDoc(<<>>)>>), JStr(KeySegments), JNum(5), JNull,
     TranscriptDoc(<<JStr(<<"h", "i">>)>>), TranscriptDoc(<<JArr(<<>>)>>),
     TranscriptDoc(<<JNull>>),
     JBool(TRUE),
     JObj(<<Field(<<"a">>, TranscriptDoc(<<>>))>>)}
    \cup {JObj(<<Field(KeySegments, x)>>) :
            x \in {JNull, JNum(5), JBool(FALSE), JStr(<<>>), JStr(<<"a", "b">>),
                   JObj(<<>>), JObj(<<Field(<<"a">>, JNum(1))>>)}}

Atoms ==
    {JNull, JBool(TRUE), JBool(FALSE), JNum(0), JNum(-12), JNum(305), JStr(<<>>),
     JStr(<<"a", "\"", "\\", "\n", " ", "/", "\t">>)}

RECURSIVE Nested(_)
\* values nested up to depth d
Nested(d) ==
    IF d = 0 THEN {JNull, JNum(-12), JStr(<<"\\", "\"", "\n">>), JArr(<<>>), JObj(<<>>)}
    ELSE LET p == Nested(d - 1)
         IN  p \cup {JArr(<<JNum(1), v>>) : v \in p}
               \cup {JObj(<<Field(<<"k">>, v)>>) : v \in p}
               \cup {JObj(<<Field(<<"a", "\"">>, JStr(<<"x">>)), Field(<<"k">>, v)>>) :
                        v \in p}

Values ==
    Atoms \cup Nested(MaxDepth) \cup {JArr(<<a, b>>) : a, b \in Atoms}

\* texts that are not JSON
BadTexts ==
    {<<>>,
     <<" ">>,
     <<"{", "n", "o", "t", " ", "j", "s", "o", "n">>,
     <<"[", "1", ",", "]">>,
     <<"{", "\"", "a", "\"", ":", "1", ",", "}">>,
     <<"\"", "a", "\n", "b", "\"">>,
     <<"\"", "a", "\\", "x", "\"">>,
     <<"\"", "a", "b", "c">>,
     <<"\"", "a", "\\">>,
     <<"[", "1", " ", "2", "]">>,
     <<"{", "\"", "a", "\"", " ", "1", "}">>,
     <<"[", "]", " ", "[", "]">>,
     <<"0", "1">>,
     <<"-">>,
     <<"n", "u", "l">>,
     <<"[">>,
     <<"{", "\"", "a", "\"", ":", "1", " ", "\"", "b", "\"", ":", "2", "}">>,
     <<"{", "'", "a", "'", ":", "1", "}">>,
     <<"E", "r", "r", "o", "r", " ", "f", "e", "t", "c", "h", "i", "n", "g", " ", "d", "a", "t", "a", ":", " ", "x">>}

\* valid JSON that no serialiser writes: duplicate keys, free whitespace,
\* an escaped solidus, minus zero
OddTexts ==
    {<<"{", "\"", "a", "\"", ":", "1", ",", "\"", "a", "\"", ":", "2", "}">>,
     <<"{", "\"", "a", "\"", ":", "1", ",", "\"", "b", "\"", ":", "2", ",", "\"", "a", "\"", ":", "3", "}">>,
     <<" ", "[", " ", "1", " ", ",", " ", "2", " ", "]", " ">>,
     <<"{", "\"", "a", "\"", "\n", ":", "\t", "1", "\r", "}">>,
     <<"\"", "\\", "/", "\"">>,
     <<"-", "0">>,
     <<"{", " ", "}">>,
     <<"{", "\"", "s", "e", "g", "m", "e", "n", "t", "s", "\"", " ", ":", "[", " ", "{", "\"", "t", "r", "a", "n", "s", "c", "r", "i", "p", "t", "\"", ":", "\"", "h", "i", "\"", "}", " ", ",", "{", "\"", "t", "r", "a", "n", "s", "c", "r", "i", "p", "t", "\"", ":", "\"", "x", "\"", "}", "]", "}">>}

\* every proper prefix of a serialised object is cut short: not JSON
Truncations ==
    {SubSeq(serialize(d), 1, n) :
        d \in {TranscriptDoc(<<g>>) : g \in GoodSegments}, n \in 1..20}

NotJson == [t |-> "bad", v |-> 0]
OddJson == [t |-> "odd", v |-> 0]

\* (text, how it was made)
Inputs ==
    {[text |-> serialize(v), source |-> v] : v \in TranscriptDocs \cup ShapeDocs \cup Values}
    \cup {[text |-> json_dumps(v), source |-> v] : v \in ShapeDocs \cup Values}
    \cup {[text |-> x, source |-> NotJson] : x \in BadTexts \cup Truncations}
    \cup {[text |-> x, source |-> OddJson] : x \in OddTexts}

---------------------------------------------------------------------------
(* The JSON operations applied to one text.                                *)

NoCall == [kind |-> "none"]

\* the variables the JSON operations never touch
Idle ==
    /\ dirs = {}
    /\ files = <<>>
    /\ stdout = <<>>
    /\ saved = NoCall
    /\ requests = <<>>
    /\ fetched = NoCall
    /\ calls = 0
    /\ pc = "idle"
    /\ full_transcript = NoResult
    /\ env = NoCall

InitJson ==
    /\ \E in \in Inputs :
          /\ json_data = in.text
          /\ source = in.source
    /\ result = NoResult
    /\ formatted = NoResult
    /\ reformatted = NoResult
    /\ Idle

\* extract_full_transcript(json_data)
Extract ==
    /\ result = NoResult
    /\ result' = extract_full_transcript(json_data)
    /\ UNCHANGED <<json_data, source, formatted, reformatted, dirs, files, stdout,
                   saved, requests, fetched, calls, pc, full_transcript, env>>

\* json_to_text(json_data)
Format ==
    /\ formatted = NoResult
    /\ formatted' = json_to_text(json_data)
    /\ UNCHANGED <<json_data, source, result, reformatted, dirs, files, stdout,
                   saved, requests, fetched, calls, pc, full_transcript, env>>

\* json_to_text(json_to_text(json_data))
Reformat ==
    /\ formatted.kind = "return"
    /\ reformatted = NoResult
    /\ reformatted' = json_to_text(formatted.s)
    /\ UNCHANGED <<json_data, source, result, formatted, dirs, files, stdout,
                   saved, requests, fetched, calls, pc, full_transcript, env>>

NextJson ==
    \/ Extract
    \/ Format
    \/ Reformat

SpecJson == InitJson /\ [][NextJson]_vars

---------------------------------------------------------------------------
(* Properties of the JSON operations (specification SpecJson).             *)

\* whether s holds sub as a substring
Contains(s, sub) ==
    \E i \in 1..(Len(s) - Len(sub) + 1) : SubSeq(s, i, i + Len(sub) - 1) = sub

IsValue(src) ==
    src.t \notin {"bad", "odd"}

\* {"segments": [...]} (other keys allowed): the list under "segments"
HasSegmentList(src) ==
    /\ src.t = "obj"
    /\ HasKey(src.v, KeySegments)
    /\ Lookup(src.v, KeySegments).t = "arr"

SegmentsOf(src) ==
    Lookup(src.v, KeySegments).v

HasTranscript(seg) ==
    /\ seg.t = "obj"
    /\ HasKey(seg.v, KeyTranscript)

\* a document of the form the extractor is written for
WellFormedDoc(src) ==
    /\ HasSegmentList(src)
    /\ \A i \in 1..Len(SegmentsOf(src)) :
          /\ HasTranscript(SegmentsOf(src)[i])
          /\ Lookup(SegmentsOf(src)[i].v, KeyTranscript).t = "str"

TranscriptsOf(src) ==
    [i \in 1..Len(SegmentsOf(src)) |-> Lookup(SegmentsOf(src)[i].v, KeyTranscript).v]

RECURSIVE Offset(_, _)
\* where the i-th of ts starts in their space-separated concatenation (0-based)
Offset(ts, i) ==
    IF i = 1 THEN 0 ELSE Offset(ts, i - 1) + Len(ts[i - 1]) + 1

\* r is ts[1], ..., ts[n] in order, one space between neighbours, nothing else
IsSpaceJoined(r, ts) ==
    LET n == Len(ts)
    IN  /\ Len(r) = IF n = 0 THEN 0 ELSE Offset(ts, n) + Len(ts[n])
        /\ \A i \in 1..n :
              /\ SubSeq(r, Offset(ts, i) + 1, Offset(ts, i) + Len(ts[i])) = ts[i]
              /\ i < n => r[Offset(ts, i) + Len(ts[i]) + 1] = " "

\* C1: for a document {"segments": [s1, ..., sn]} whose segments all carry a
\* string transcript, extract_full_transcript returns the transcripts in
\* sequence order with exactly one space between neighbours (the empty
\* string for n = 0), whatever other fields the segments carry.
C1_JoinedInOrder ==
    (WellFormedDoc(source) /\ result # NoResult)
        => /\ result.kind = "return"
           /\ IsSpaceJoined(result.s, TranscriptsOf(source))

C1_Witness ==
    /\ WellFormedDoc(source)
    /\ Len(SegmentsOf(source)) = MaxSegs
    /\ \E i \in 1..MaxSegs : Len(SegmentsOf(source)[i].v) > 1
    /\ result.kind = "return"
    /\ Len(result.s) > MaxSegs

\* the cases of C2: no JSON at all, an object without "segments", a list of
\* objects under "segments" of which at least one has no "transcript"
LacksSegments(src) ==
    /\ src.t = "obj"
    /\ ~HasKey(src.v, KeySegments)

SomeSegmentLacksTranscript(src) ==
    /\ HasSegmentList(src)
    /\ \A i \in 1..Len(SegmentsOf(src)) : SegmentsOf(src)[i].t = "obj"
    /\ \E i \in 1..Len(SegmentsOf(src)) : ~HasTranscript(SegmentsOf(src)[i])

C3_NeverRaises ==
    (result # NoResult)
        => /\ result.kind = "return"
           /\ (IsValue(source) /\ ~WellFormedDoc(source))
                => StartsWith(result.s, ExtractErrorPrefix)

\* C4: on a text that is not JSON json_to_text returns "Invalid JSON data: "
\* followed by the parser's description of the error and raises nothing; on
\* JSON it returns JSON text, which never starts with that prefix.
C4_InvalidJsonString ==
    (formatted # NoResult)
        => /\ formatted.kind = "return"
           /\ source = NotJson
                => /\ StartsWith(formatted.s, InvalidJsonPrefix)
                   /\ Contains(formatted.s, TxtLine)
                   /\ Contains(formatted.s, TxtChar)
           /\ source # NotJson
                => /\ ~StartsWith(formatted.s, InvalidJsonPrefix)
                   /\ json_loads(formatted.s).ok

C4_Witness ==
    /\ source = NotJson
    /\ json_data = <<"{", "n", "o", "t", " ", "j", "s", "o", "n">>
    /\ formatted.kind = "return"

\* C5: for a JSON value v, the output of json_to_text on the serialised v
\* parses back to v; and json_to_text maps its own output on JSON to itself.
C5_RoundTrip ==
    /\ (IsValue(source) /\ formatted # NoResult)
            => /\ json_loads(formatted.s).ok
               /\ json_loads(formatted.s).v = source
    /\ (source # NotJson /\ reformatted # NoResult)
            => reformatted = formatted

C5_Witness ==
    /\ IsValue(source)
    /\ source.t = "obj"
    /\ Len(source.v) = 2
    /\ source.v[2].v.t = "arr"
    /\ reformatted.kind = "return"
    /\ Len(reformatted.s) > Len(json_data)

---------------------------------------------------------------------------
(* posixpath and the filesystem.  A path is text; the filesystem resolves  *)
(* it to a node: whether it starts at the root, and its components.  The   *)
(* root and the working directory always exist.                            *)

RECURSIVE RStrip(_)
\* p.rstrip('/')
RStrip(p) ==
    IF p # <<>> /\ p[Len(p)] = "/" THEN RStrip(SubSeq(p, 1, Len(p) - 1)) ELSE p

\* p.rfind('/') + 1
RFindSep(p) ==
    LET at == {i \in 1..Len(p) : p[i] = "/"}
    IN  IF at = {} THEN 0 ELSE CHOOSE i \in at : \A j \in at : j <= i

\* posixpath.split(p)
Split(p) ==
    LET i == RFindSep(p)
        head == SubSeq(p, 1, i)
        tail == SubSeq(p, i + 1, Len(p))
    IN  [head |-> IF head # <<>> /\ RStrip(head) # <<>> THEN RStrip(head) ELSE head,
         tail |-> tail]

\* os.path.dirname(p)
dirname(p) ==
    Split(p).head

\* what a name between two slashes adds to the walk: nothing when it is
\* empty or ".", which names the directory it stands in
Step(cur) ==
    IF cur = <<>> \/ cur = <<".">> THEN <<>> ELSE <<cur>>

RECURSIVE Components(_, _)
\* the names the kernel walks through for p; cur is the name being read
Components(p, cur) ==
    IF p = <<>> THEN Step(cur)
    ELSE IF Head(p) = "/" THEN Step(cur) \o Components(Tail(p), <<>>)
    ELSE Components(Tail(p), Append(cur, Head(p)))

\* the node a path resolves to
Resolve(p) ==
    [abs |-> At(p, 1) = "/", comps |-> Components(p, <<>>)]

Ancestor(n, k) ==
    [abs |-> n.abs, comps |-> SubSeq(n.comps, 1, k)]

IsDirNode(ds, n) ==
    n.comps = <<>> \/ n \in ds

IsFileNode(fs, n) ==
    n \in DOMAIN fs

\* what the kernel's walk to the parent of n fails with, if it fails
WalkError(ds, fs, n) ==
    LET bad == {k \in 1..(Len(n.comps) - 1) : ~IsDirNode(ds, Ancestor(n, k))}
        first == CHOOSE k \in bad : \A j \in bad : k <= j
    IN  IF bad = {} THEN "none"
        ELSE IF IsFileNode(fs, Ancestor(n, first)) THEN "NotADirectoryError"
        ELSE "FileNotFoundError"

\* os.path.exists(p), os.path.isdir(p)
exists(ds, fs, p) ==
    /\ p # <<>>
    /\ WalkError(ds, fs, Resolve(p)) = "none"
    /\ \/ IsDirNode(ds, Resolve(p))
       \/ IsFileNode(fs, Resolve(p)) /\ p[Len(p)] # "/"

isdir(ds, fs, p) ==
    /\ p # <<>>
    /\ WalkError(ds, fs, Resolve(p)) = "none"
    /\ IsDirNode(ds, Resolve(p))

\* os.mkdir(p): the exception it raises ("none": the directory is made), the
\* directories afterwards and the path the exception names; inject makes the
\* creation itself fail
mkdir(ds, fs, p, inject) ==
    LET n == Resolve(p)
        walk == WalkError(ds, fs, n)
        exc == IF p = <<>> THEN "FileNotFoundError"
               ELSE IF walk # "none" THEN walk
               ELSE IF IsDirNode(ds, n) \/ IsFileNode(fs, n) THEN "FileExistsError"
               ELSE IF inject = "mkdir" THEN "PermissionError"
               ELSE "none"
    IN  [exc |-> exc, dirs |-> IF exc = "none" THEN ds \cup {n} ELSE ds, at |-> p]

\* the value of F at e, with e evaluated once
Bind(e, F(_)) ==
    CHOOSE r \in {F(x) : x \in {e}} : TRUE

RECURSIVE makedirs(_, _, _, _)
\* os.makedirs(name, exist_ok=True)
makedirs(ds, fs, name, inject) ==
    LET first == Split(name)
        sp == IF first.tail = <<>> THEN Split(first.head) ELSE first
        climb == sp.head # <<>> /\ sp.tail # <<>> /\ ~exists(ds, fs, sp.head)
    IN  Bind(IF climb THEN makedirs(ds, fs, sp.head, inject)
                      ELSE [exc |-> "none", dirs |-> ds, at |-> name],
             LAMBDA above :
                IF above.exc \notin {"none", "FileExistsError"} THEN above
                ELSE IF climb /\ sp.tail = <<".">>
                     THEN [exc |-> "none", dirs |-> above.dirs, at |-> name]
                ELSE Bind(mkdir(above.dirs, fs, name, inject),
                          LAMBDA made :
                             IF made.exc # "none" /\ isdir(above.dirs, fs, name)
                             THEN [exc |-> "none", dirs |-> above.dirs, at |-> name]
                             ELSE made))

\* open(p, 'w', encoding='utf-8'): the exception it raises, if any
open_w(ds, fs, p, inject) ==
    LET n == Resolve(p)
        walk == WalkError(ds, fs, n)
    IN  IF p = <<>> THEN "FileNotFoundError"
        ELSE IF walk # "none" THEN walk
        ELSE IF IsDirNode(ds, n) THEN "IsADirectoryError"
        ELSE IF p[Len(p)] = "/"
             THEN (IF IsFileNode(fs, n) THEN "NotADirectoryError" ELSE "IsADirectoryError")
        ELSE IF inject = "open" THEN "PermissionError"
        ELSE "none"

\* fs with file n holding content
WithFile(fs, n, content) ==
    [m \in (DOMAIN fs) \cup {n} |-> IF m = n THEN content ELSE fs[m]]

ErrnoText(exc) ==
    CASE exc = "FileNotFoundError" ->
            <<"[", "E", "r", "r", "n", "o", " ", "2", "]", " ", "N", "o", " ", "s", "u", "c",
              "h", " ", "f", "i", "l", "e", " ", "o", "r", " ", "d", "i", "r", "e", "c", "t",
              "o", "r", "y">>
      [] exc = "NotADirectoryError" ->
            <<"[", "E", "r", "r", "n", "o", " ", "2", "0", "]", " ", "N", "o", "t", " ", "a",
              " ", "d", "i", "r", "e", "c", "t", "o", "r", "y">>
      [] exc = "FileExistsError" ->
            <<"[", "E", "r", "r", "n", "o", " ", "1", "7", "]", " ", "F", "i", "l", "e", " ",
              "e", "x", "i", "s", "t", "s">>
      [] exc = "IsADirectoryError" ->
            <<"[", "E", "r", "r", "n", "o", " ", "2", "1", "]", " ", "I", "s", " ", "a", " ",
              "d", "i", "r", "e", "c", "t", "o", "r", "y">>
      [] exc = "PermissionError" ->
            <<"[", "E", "r", "r", "n", "o", " ", "1", "3", "]", " ", "P", "e", "r", "m", "i",
              "s", "s", "i", "o", "n", " ", "d", "e", "n", "i", "e", "d">>
      [] OTHER ->
            <<"[", "E", "r", "r", "n", "o", " ", "2", "8", "]", " ", "N", "o", " ", "s", "p",
              "a", "c", "e", " ", "l", "e", "f", "t", " ", "o", "n", " ", "d", "e", "v", "i",
              "c", "e">>

\* str(OSError(errno, strerror, filename))
OSErrorStr(exc, p) ==
    ErrnoText(exc) \o <<":", " ", "'">> \o p \o <<"'">>

\* a returned bool
BoolReturn(b) == [kind |-> "return", v |-> b]

\* mutant of SaveExcept: the handler reports success
SaveExceptTrue(exc, p) ==
    [ret |-> BoolReturn(TRUE), printed |-> <<SaveErrorPrefix \o OSErrorStr(exc, p)>>]

\* the except clause of save_transcript_to_file: every Exception is caught,
\* printed, and answered with False
SaveExcept(exc, p) ==
    [ret |-> BoolReturn(FALSE),
     printed |-> <<SaveErrorPrefix \o OSErrorStr(exc, p)>>]

\* what save_transcript_to_file leaves when exc was raised in its try body
SaveFailed(ds, fs, exc, p) ==
    [dirs |-> ds, files |-> fs, exc |-> exc,
     ret |-> SaveExcept(exc, p).ret, printed |-> SaveExcept(exc, p).printed]

\* save_transcript_to_file(transcript, file_path) on the filesystem (ds, fs).
\* inject: the step the environment makes fail ("none", "mkdir", "open",
\* "write"); kept: how much of the text reaches the file when the write fails
save_transcript_to_file(ds, fs, transcript, file_path, inject, kept) ==
    Bind(makedirs(ds, fs, dirname(file_path), inject),
         LAMBDA md :
            IF md.exc # "none"
            THEN SaveFailed(md.dirs, fs, md.exc, md.at)
            ELSE Bind(open_w(md.dirs, fs, file_path, inject),
                      LAMBDA opened :
                         IF opened # "none"
                         THEN SaveFailed(md.dirs, fs, opened, file_path)
                         ELSE IF inject = "write" /\ transcript # <<>>
                         THEN SaveFailed(md.dirs,
                                         WithFile(fs, Resolve(file_path),
                                                  SubSeq(transcript, 1, kept)),
                                         "OSError", file_path)
                         ELSE [dirs |-> md.dirs,
                               files |-> WithFile(fs, Resolve(file_path), transcript),
                               exc |-> "none", ret |-> BoolReturn(TRUE),
                               printed |-> <<>>]))

---------------------------------------------------------------------------
(* save_transcript_to_file called on a filesystem that keeps what earlier  *)
(* calls left.                                                             *)

MaxSaves == 2

\* file paths: relative and absolute, with no, one and two directories above
\* the file, with "." in front, a doubled and a trailing slash, the empty path,
\* the root, and paths that name what an earlier call made a directory or a file
PathTexts ==
    {<<"f">>,
     <<"d", "/", "f">>,
     <<"d", "/", "e", "/", "f">>,
     <<"/", "f">>,
     <<"/", "d", "/", "f">>,
     <<>>,
     <<"/">>,
     <<"d", "/">>,
     <<".", "/", "f">>,
     <<"d", "/", "/", "f">>,
     <<"d">>}

Contents ==
    {<<"x">>, <<"y", "z">>}

\* the step the environment makes fail
Injections ==
    {"none", "mkdir", "open", "write"}

NodeOf(abs, comps) == [abs |-> abs, comps |-> comps]

\* the filesystems the first call may find: nothing there; the directory d
\* with an old file in it
InitialFilesystems ==
    {[dirs |-> {}, files |-> <<>>],
     [dirs |-> {NodeOf(FALSE, <<<<"d">>>>)},
      files |-> [n \in {NodeOf(FALSE, <<<<"d">>, <<"f">>>>)} |-> <<"o", "l", "d">>]]}

InitFile ==
    /\ \E fs0 \in InitialFilesystems :
          /\ dirs = fs0.dirs
          /\ files = fs0.files
    /\ json_data = <<>>
    /\ source = NotJson
    /\ result = NoResult
    /\ formatted = NoResult
    /\ reformatted = NoResult
    /\ stdout = <<>>
    /\ saved = NoCall
    /\ requests = <<>>
    /\ fetched = NoCall
    /\ calls = 0
    /\ pc = "idle"
    /\ full_transcript = NoResult
    /\ env = NoCall

\* one call save_transcript_to_file(transcript, file_path); stdout gets what
\* the call prints
Save ==
    /\ calls < MaxSaves
    /\ \E transcript \in Contents, file_path \in PathTexts, inject \in Injections :
         \E kept \in 0..Len(transcript) :
            /\ kept = 0 \/ (inject = "write" /\ kept < Len(transcript))
            /\ LET out == save_transcript_to_file(dirs, files, transcript, file_path,
                                                  inject, kept)
               IN  /\ dirs' = out.dirs
                   /\ files' = out.files
                   /\ stdout' = out.printed
                   /\ saved' = [kind |-> "save", transcript |-> transcript,
                                file_path |-> file_path, inject |-> inject,
                                exc |-> out.exc, ret |-> out.ret]
    /\ calls' = calls + 1
    /\ UNCHANGED <<json_data, source, result, formatted, reformatted, requests,
                   fetched, pc, full_transcript, env>>

NextFile ==
    Save

SpecFile == InitFile /\ [][NextFile]_vars

---------------------------------------------------------------------------
(* C6, C7: properties of save_transcript_to_file (specification SpecFile). *)

\* a path that names a place for a file: not empty, no slash at its end, no
\* file where it wants a directory, no directory where it wants the file
Placeable(ds, fs, p) ==
    /\ p # <<>>
    /\ p[Len(p)] # "/"
    /\ \A k \in 1..(Len(Resolve(p).comps) - 1) : ~IsFileNode(fs, Ancestor(Resolve(p), k))
    /\ ~IsDirNode(ds, Resolve(p))

\* C6 as claimed: on a filesystem that lets every step succeed, for every
\* content and every path that names a place for a file (relative or
\* absolute, with or without a directory part, parents there or not),
\* save_transcript_to_file creates the missing parent directories, leaves the
\* file holding exactly the content and returns True.
C6_WrittenEverywhere ==
    (saved.kind = "save" /\ saved.inject = "none"
            /\ Placeable(dirs, files, saved.file_path))
        => /\ saved.ret = BoolReturn(TRUE)
           /\ IsFileNode(files, Resolve(saved.file_path))
           /\ files[Resolve(saved.file_path)] = saved.transcript
           /\ \A k \in 1..(Len(Resolve(saved.file_path).comps) - 1) :
                 IsDirNode(dirs, Ancestor(Resolve(saved.file_path), k))

\* C7: save_transcript_to_file never raises; when a step of it fails it prints
\* one line "Error saving transcript: ..." and returns False; it returns True
\* only when nothing failed, and then the file holds the content and nothing
\* was printed.
C7_BooleanAgrees ==
    (saved.kind = "save")
        => /\ saved.ret.kind = "return"
           /\ saved.exc # "none"
                => /\ saved.ret.v = FALSE
                   /\ Len(stdout) = 1
                   /\ StartsWith(stdout[1], SaveErrorPrefix)
                   /\ Len(stdout[1]) > Len(SaveErrorPrefix)
           /\ (saved.inject = "open" /\ Placeable(dirs, files, saved.file_path))
                => saved.exc # "none"
           /\ (saved.inject = "write") => saved.exc # "none"
           /\ saved.ret.v = TRUE
                => /\ saved.exc = "none"
                   /\ stdout = <<>>
                   /\ IsFileNode(files, Resolve(saved.file_path))
                   /\ files[Resolve(saved.file_path)] = saved.transcript

C7_Witness ==
    /\ saved.kind = "save"
    /\ calls = MaxSaves
    /\ saved.inject = "write"
    /\ saved.exc = "OSError"
    /\ saved.ret = BoolReturn(FALSE)
    /\ IsFileNode(files, Resolve(saved.file_path))
    /\ files[Resolve(saved.file_path)] # saved.transcript

---------------------------------------------------------------------------
(* load_from_localhost and the network.                                    *)

HttpGetPrefix ==
    <<"h", "t", "t", "p", ":", "/", "/", "l", "o", "c", "a", "l", "h", "o", "s", "t", ":",
      "8", "0", "0", "0">>
DefaultUrl ==
    HttpGetPrefix \o <<"/", "d", "a", "t", "a">>
MsgClientError ==
    <<" ", "C", "l", "i", "e", "n", "t", " ", "E", "r", "r", "o", "r", ":", " ">>
MsgServerError ==
    <<" ", "S", "e", "r", "v", "e", "r", " ", "E", "r", "r", "o", "r", ":", " ">>
MsgForUrl ==
    <<" ", "f", "o", "r", " ", "u", "r", "l", ":", " ">>

NoToken == [given |-> FALSE, v |-> <<>>]
Token(cs) == [given |-> TRUE, v |-> cs]

\* bool(token): None and the empty string are false
Truthy(token) ==
    token.given /\ token.v # <<>>

\* mutant of BuildHeaders: the scheme and the token are not separated
BuildHeadersNoSpace(token) ==
    IF Truthy(token)
    THEN {[name |-> "Authorization", value |-> <<"B", "e", "a", "r", "e", "r">> \o token.v]}
    ELSE {}

\* headers = {}; if token: headers["Authorization"] = f"Bearer {token}"
BuildHeaders(token) ==
    IF Truthy(token)
    THEN {[name |-> "Authorization", value |-> BearerPrefix \o token.v]}
    ELSE {}

RaiseStatusMin == 400
RaiseStatusMax == 600

\* mutant of HTTPErrorRaised: only server errors count
HTTPErrorRaisedServerOnly(response) ==
    500 <= response.status_code /\ response.status_code < RaiseStatusMax

\* response.raise_for_status(): whether it raises HTTPError
HTTPErrorRaised(response) ==
    RaiseStatusMin <= response.status_code /\ response.status_code < RaiseStatusMax

\* str(HTTPError) as raise_for_status words it
HTTPErrorStr(url, response) ==
    NatRepr(response.status_code)
        \o (IF response.status_code < 500 THEN MsgClientError ELSE MsgServerError)
        \o response.reason \o MsgForUrl \o url

\* what requests.get comes back with: a response
Response(code, reason, text) ==
    [kind |-> "response", status_code |-> code, reason |-> reason, text |-> text,
     msg |-> <<>>, exc |-> "none"]

\* what requests.get comes back with: a RequestException other than HTTPError
RequestFailed(exc, msg) ==
    [kind |-> "raise", status_code |-> 0, reason |-> <<>>, text |-> <<>>, msg |-> msg,
     exc |-> exc]

\* load_from_localhost(url, token), given what the one requests.get call of
\* it comes back with: the call made, and the returned text
load_from_localhost(url, token, outcome) ==
    [request |-> [method |-> "GET", url |-> url, headers |-> BuildHeaders(token)],
     ret |-> IF outcome.kind = "raise" THEN Return(FetchErrorPrefix \o outcome.msg)
             ELSE IF HTTPErrorRaised(outcome)
                  THEN Return(FetchErrorPrefix \o HTTPErrorStr(url, outcome))
             ELSE Return(outcome.text)]

---------------------------------------------------------------------------
(* load_from_localhost called against a network that answers as it likes.  *)

MaxFetches == 2

Urls ==
    {DefaultUrl, HttpGetPrefix \o <<"/", "x", ".", "j", "s", "o", "n">>}

\* no token, the empty string, and two tokens
Tokens ==
    {NoToken, Token(<<>>), Token(<<"t">>), Token(<<"a", ".", "b", "-", "c">>)}

SmallBody ==
    serialize(TranscriptDoc(<<JObj(<<Field(KeyTranscript, JStr(<<"h", "i">>))>>)>>))

\* what one requests.get call may come back with: statuses on both sides of
\* the two ends of the 4xx-5xx range, with and without a body, and the
\* exceptions of a request that never got an answer
Outcomes ==
    {Response(200, <<"O", "K">>, SmallBody),
     Response(204, <<"N", "o", " ", "C", "o", "n", "t", "e", "n", "t">>, <<>>),
     Response(399, <<>>, SmallBody),
     Response(400, <<"B", "a", "d", " ", "R", "e", "q", "u", "e", "s", "t">>, SmallBody),
     Response(404, <<"N", "o", "t", " ", "F", "o", "u", "n", "d">>, <<>>),
     Response(499, <<>>, SmallBody),
     Response(500, <<"I", "n", "t", "e", "r", "n", "a", "l">>, SmallBody),
     Response(599, <<>>, <<>>),
     RequestFailed("ConnectionError", <<"r", "e", "f", "u", "s", "e", "d">>),
     RequestFailed("Timeout", <<"t", "i", "m", "e", "d", " ", "o", "u", "t">>)}

InitFetch ==
    /\ json_data = <<>>
    /\ source = NotJson
    /\ result = NoResult
    /\ formatted = NoResult
    /\ reformatted = NoResult
    /\ Idle

\* one call load_from_localhost(url, token)
Fetch ==
    /\ calls < MaxFetches
    /\ \E url \in Urls, token \in Tokens, outcome \in Outcomes :
         LET out == load_from_localhost(url, token, outcome)
         IN  /\ requests' = Append(requests, out.request)
             /\ fetched' = [kind |-> "fetch", url |-> url, token |-> token,
                            outcome |-> outcome, ret |-> out.ret]
    /\ calls' = calls + 1
    /\ UNCHANGED <<json_data, source, result, formatted, reformatted, dirs, files,
                   stdout, saved, pc, full_transcript, env>>

NextFetch ==
    Fetch

SpecFetch == InitFetch /\ [][NextFetch]_vars

AuthorizationHeaders(request) ==
    {h \in request.headers : h.name = "Authorization"}

\* C9 as claimed: whenever a token is supplied, whatever string it is, the GET
\* carries Authorization: Bearer <token>; without a token it carries no
\* Authorization header.
C9_EveryTokenSent ==
    (fetched.kind = "fetch")
        => IF fetched.token.given
           THEN AuthorizationHeaders(requests[calls])
                    = {[name |-> "Authorization", value |-> BearerPrefix \o fetched.token.v]}
           ELSE AuthorizationHeaders(requests[calls]) = {}

\* C9 as amended: whenever a non-empty token is supplied the GET carries
\* exactly one Authorization header, "Bearer ", a space and the token
\* unchanged; without a token, and with the empty string as token, it
\* carries no Authorization header.
C9_NonEmptyTokenSent ==
    (fetched.kind = "fetch")
        => IF fetched.token.given /\ fetched.token.v # <<>>
           THEN /\ Cardinality(AuthorizationHeaders(requests[calls])) = 1
                /\ \A h \in AuthorizationHeaders(requests[calls]) :
                      /\ SubSeq(h.value, 1, 6) = <<"B", "e", "a", "r", "e", "r">>
                      /\ h.value[7] = " "
                      /\ SubSeq(h.value, 8, Len(h.value)) = fetched.token.v
           ELSE AuthorizationHeaders(requests[calls]) = {}

C9_Witness ==
    /\ fetched.kind = "fetch"
    /\ Len(fetched.token.v) > 1
    /\ AuthorizationHeaders(requests[calls]) # {}

---------------------------------------------------------------------------
(* The driver: the script under  if __name__ == "__main__".                *)

auth_token ==
    <<"e", "y", "J", "h", "b", "G", "c", "i", "O", "i", "J", "I", "U", "z", "I", "1", "N",
      "i", "I", "s", "I", "n", "R", "5", "c", "C", "I", "6", "I", "k", "p", "X", "V", "C",
      "J", "9", ".", "e", "y", "J", "p", "Z", "C", "I", "6", "I", "j", "A", "x", "S", "z",
      "M", "w", "N", "T", "Z", "U", "N", "E", "Y", "0", "R", "k", "c", "z", "W", "V", "N",
      "C", "Q", "T", "Z", "T", "R", "0", "h", "a", "U", "z", "V", "C", "I", "i", "w", "i",
      "d", "X", "N", "l", "c", "m", "5", "h", "b", "W", "U", "i", "O", "i", "J", "v", "d",
      "W", "R", "v", "b", "S", "I", "s", "I", "m", "V", "t", "Y", "W", "l", "s", "I", "j",
      "o", "i", "b", "3", "V", "k", "b", "2", "1", "A", "M", "T", "I", "z", "L", "m", "N",
      "v", "b", "S", "I", "s", "I", "m", "l", "h", "d", "C", "I", "6", "M", "T", "c", "1",
      "N", "T", "U", "3", "N", "z", "A", "1", "O", "C", "w", "i", "Z", "X", "h", "w", "I",
      "j", "o", "x", "N", "z", "U", "2", "M", "T", "g", "x", "O", "D", "U", "4", "f", "Q",
      ".", "e", "I", "U", "Z", "y", "_", "a", "c", "X", "n", "9", "7", "1", "P", "3", "X",
      "H", "g", "g", "_", "y", "c", "I", "o", "0", "q", "3", "k", "e", "k", "t", "U", "e",
      "e", "W", "X", "D", "-", "p", "N", "G", "7", "o">>

dataurl ==
    <<"/", "o", "u", "t", "p", "u", "t", "/", "0", "f", "1", "6", "2", "d", "b", "5", "-",
      "2", "a", "0", "9", "-", "4", "8", "e", "1", "-", "8", "d", "1", "8", "-", "e", "b",
      "e", "2", "a", "c", "8", "9", "d", "d", "a", "8", "_", "o", "u", "t", "p", "u", "t",
      "/", "0", "f", "1", "6", "2", "d", "b", "5", "-", "2", "a", "0", "9", "-", "4", "8",
      "e", "1", "-", "8", "d", "1", "8", "-", "e", "b", "e", "2", "a", "c", "8", "9", "d",
      "d", "a", "8", ".", "j", "s", "o", "n">>

localhost_url ==
    HttpGetPrefix \o dataurl

\* s.split("/")[-1]
LastPart(p) ==
    SubSeq(p, RFindSep(p) + 1, Len(p))

RECURSIVE Replace(_, _, _)
\* s.replace(old, new), old not empty
Replace(p, old, new) ==
    IF Len(p) < Len(old) THEN p
    ELSE IF SubSeq(p, 1, Len(old)) = old
         THEN new \o Replace(SubSeq(p, Len(old) + 1, Len(p)), old, new)
         ELSE <<Head(p)>> \o Replace(Tail(p), old, new)

file_id ==
    Replace(LastPart(dataurl), <<".", "j", "s", "o", "n">>, <<>>)

\* os.path.join(a, b)
join(a, b) ==
    IF At(b, 1) = "/" THEN b
    ELSE IF a = <<>> \/ a[Len(a)] = "/" THEN a \o b
    ELSE a \o <<"/">> \o b

OutputDir ==
    <<"j", "s", "o", "n", "_", "t", "o", "_", "t", "e", "x", "t">>

output_path ==
    join(OutputDir, file_id \o <<"_", "o", "u", "t", "p", "u", "t", ".", "t", "x", "t">>)

\* what the server may answer the driver with, and how the body was made
DriverBodies ==
    {[text |-> serialize(v), source |-> v] :
        v \in ShapeDocs \cup {TranscriptDoc(l) : l \in [1..2 -> SegmentCandidates]}}
    \cup {[text |-> x, source |-> NotJson] : x \in {<<>>, <<"{", "n", "o", "t">>}}

DriverOutcomes ==
    {[net |-> Response(200, <<"O", "K">>, b.text), source |-> b.source] :
        b \in DriverBodies}
    \cup {[net |-> o, source |-> NotJson] :
            o \in {x \in Outcomes : x.kind = "raise" \/ HTTPErrorRaised(x)}}

\* the filesystems the driver may start on: nothing there; the output
\* directory with the output of an earlier run in it
DriverFilesystems ==
    {[dirs |-> {}, files |-> <<>>],
     [dirs |-> {Resolve(OutputDir)},
      files |-> [n \in {Resolve(output_path)} |-> <<"o", "l", "d">>]]}

InitMain ==
    /\ \E o \in DriverOutcomes, inject \in Injections :
          env = [kind |-> "env", net |-> o.net, source |-> o.source, inject |-> inject]
    /\ \E fs0 \in DriverFilesystems :
          /\ dirs = fs0.dirs
          /\ files = fs0.files
    /\ json_data = <<>>
    /\ source = NotJson
    /\ result = NoResult
    /\ formatted = NoResult
    /\ reformatted = NoResult
    /\ stdout = <<>>
    /\ saved = NoCall
    /\ requests = <<>>
    /\ fetched = NoCall
    /\ calls = 0
    /\ pc = "fetch"
    /\ full_transcript = NoResult

\* json_data = load_from_localhost(localhost_url, token=auth_token)
MainFetch ==
    /\ pc = "fetch"
    /\ LET out == load_from_localhost(localhost_url, Token(auth_token), env.net)
       IN  /\ requests' = Append(requests, out.request)
           /\ fetched' = [kind |-> "fetch", url |-> localhost_url,
                          token |-> Token(auth_token), outcome |-> env.net,
                          ret |-> out.ret]
           /\ json_data' = out.ret.s
    /\ source' = env.source
    /\ pc' = "extract"
    /\ UNCHANGED <<result, formatted, reformatted, dirs, files, stdout, saved, calls,
                   full_transcript, env>>

\* full_transcript = extract_full_transcript(json_data); an exception that
\* leaves the call ends the script
MainExtract ==
    /\ pc = "extract"
    /\ full_transcript' = extract_full_transcript(json_data)
    /\ pc' = IF full_transcript'.kind = "raise" THEN "crashed" ELSE "save"
    /\ UNCHANGED <<json_data, source, result, formatted, reformatted, dirs, files,
                   stdout, saved, requests, fetched, calls, env>>

\* if save_transcript_to_file(full_transcript, output_path): print(...)
MainSave ==
    /\ pc = "save"
    /\ \E kept \in 0..1 :
         /\ kept = 0 \/ (env.inject = "write" /\ kept < Len(full_transcript.s))
         /\ LET out == save_transcript_to_file(dirs, files, full_transcript.s,
                                               output_path, env.inject, kept)
            IN  /\ dirs' = out.dirs
                /\ files' = out.files
                /\ saved' = [kind |-> "save", transcript |-> full_transcript.s,
                             file_path |-> output_path, inject |-> env.inject,
                             exc |-> out.exc, ret |-> out.ret]
                /\ stdout' = stdout \o out.printed
                       \o (IF out.ret.v THEN <<SavedPrefix \o output_path>> ELSE <<>>)
    /\ pc' = "format"
    /\ UNCHANGED <<json_data, source, result, formatted, reformatted, requests,
                   fetched, calls, full_transcript, env>>

\* formatted_text = json_to_text(json_data); print(formatted_text)
MainFormat ==
    /\ pc = "format"
    /\ formatted' = json_to_text(json_data)
    /\ stdout' = Append(stdout, formatted'.s)
    /\ pc' = "done"
    /\ UNCHANGED <<json_data, source, result, reformatted, dirs, files, saved,
                   requests, fetched, calls, full_transcript, env>>

NextMain ==
    \/ MainFetch
    \/ MainExtract
    \/ MainSave
    \/ MainFormat

SpecMain == InitMain /\ [][NextMain]_vars

\* the fetch failed, or what it fetched is not a document of the form
\* {"segments": [{"transcript": string, ...}, ...]}
NoTranscriptFetched ==
    \/ env.net.kind = "raise"
    \/ env.net.status_code \in 400..599
    \/ env.source = NotJson
    \/ ~WellFormedDoc(env.source)

\* C10 as claimed: the driver runs fetch, extract, save and format whatever
\* the earlier steps came back with; so, on a filesystem that lets the save
\* succeed, when the fetch failed or the body is no transcript document, the
\* script still ends with the output file written, holding a text that starts
\* with "Error extracting transcript: ", and with "Transcript saved to ..."
\* printed.
C10_ErrorTextSaved ==
    (pc \in {"done", "crashed"} /\ env.inject = "none" /\ NoTranscriptFetched)
        => /\ pc = "done"
           /\ saved.kind = "save"
           /\ saved.ret = BoolReturn(TRUE)
           /\ IsFileNode(files, Resolve(output_path))
           /\ StartsWith(files[Resolve(output_path)], ExtractErrorPrefix)
           /\ \E i \in 1..Len(stdout) : stdout[i] = SavedPrefix \o output_path

===========================================================================
